---- MODULE Spec2Model ----
(***************************************************************************)
(* A model of yaspeedtest: the YaSpeedTest client (src/yaspeedtest/        *)
(* client.py) and the program that drives it (src/examples/one_by_one.py). *)
(*                                                                         *)
(* The client is constructed once (the bootstrap catalog fetch), then its  *)
(* three coroutines measure_download, measure_latency and measure_upload   *)
(* run as asyncio tasks.  Every await of the code is one step of a task;   *)
(* what the network answers at that await is chosen by \E.                 *)
(*                                                                         *)
(* Time is time.perf_counter(): the variable now, in whole seconds, which  *)
(* only moves forward (Tick).  float('inf') is the record Inf; a finite    *)
(* float is a ratio num/den (statistics.median halves a sum).              *)
(***************************************************************************)
EXTENDS Integers, Sequences, FiniteSets, TLC

\* ------------------------------------------------------------ bounds
MaxChunks == 2      \* chunks a download body is delivered in: 0..MaxChunks
MaxClock == 1       \* ticks of perf_counter the model follows
MaxFullChunks == 2  \* full 64 KiB chunks of an upload size given to a direct call
MaxAttempts == 5    \* attempts given to a direct measure_latency call: 0..MaxAttempts
MaxCalls == 1       \* direct calls a caller makes, one after the other
MaxCount == 3       \* rounds asked of run(count): 1..MaxCount

\* ------------------------------------------------- program constants
ChunkSize == 65536      \* 64 * 1024
Penalty == 10000        \* ms recorded for a failed attempt
DefaultAttempts == 5    \* measure_latency(attempts=5)
StatusOK == 200

\* ------------------------------------------------------------ floats
Inf == [finite |-> FALSE, num |-> 0, den |-> 1]
Float(n) == [finite |-> TRUE, num |-> n, den |-> 1]
Sentinel == <<Inf, 0>>

VARIABLES
    main_pc,          \* where the driving program is
    ya,               \* the client object the caller holds: "none" | "ready"
    DEFAULT_HEADERS,  \* the class-level header dict (its keys)
    session_headers,  \* self.session.headers of the bootstrap requests.Session
    probes,           \* self.probes: None or the validated catalog
    mid, lid,         \* self.mid, self.lid
    fetches,          \* GETs issued to the catalog endpoint
    bootstrap,        \* what the catalog endpoint answered: "" before the fetch
    error,            \* the exception main() ended with: "none" while it has not
    tasks,            \* the coroutines of the running fan-out or direct call
    sessions,         \* the open aiohttp.ClientSession objects: id -> owner, users
    next_call,        \* measure_* calls started so far
    now,              \* time.perf_counter()
    run               \* the frame of run(count): its rounds, samples and result

vars == <<main_pc, ya, DEFAULT_HEADERS, session_headers, probes, mid, lid,
          fetches, bootstrap, error, tasks, sessions, next_call, now, run>>

clientVars == <<ya, DEFAULT_HEADERS, session_headers, probes, mid, lid, fetches, bootstrap>>

\* ------------------------------------------------------------ values
\* An optional timeout: None, or a number of seconds.
NoTimeout == [given |-> FALSE, v |-> 0]
Timeout(n) == [given |-> TRUE, v |-> n]
Timeouts == {NoTimeout, Timeout(0), Timeout(5)}

\* HTTP statuses a probe endpoint answers with.
Statuses == {200, 204, 500}

\* The resources behind the probe URLs: URL u answers a GET with a body that
\* resp.content.iter_chunked(64 * 1024) yields in u chunks, full ones and a
\* last one of a single byte.
Urls == 0..MaxChunks
Body(url) == [k \in 1..url |-> IF k < url THEN ChunkSize ELSE 1]

\* Names of the headers of DEFAULT_HEADERS, and of a catalog response.
DefaultHeaderKeys ==
    {"User-Agent", "Accept", "Accept-Encoding", "Referer", "sec-ch-ua",
     "Sec-Fetch-Mode", "Sec-Fetch-Dest", "sec-fetch-site"}
ResponseHeaderKeys == {"Set-Cookie", "Accept"}

\* Upload sizes a direct call is given.
Sizes == {k * ChunkSize + r : k \in 0..MaxFullChunks, r \in {0, 1, ChunkSize - 1}}

\* ProbeModel and ProbesResponse (yaspeedtest.types), as the callers read them.
\* The catalogs the service answers with: per category, how many probes.  The
\* k-th download probe has URL k - 1, the k-th upload probe declares
\* (k - 1) * (64 KiB + 1) bytes, and no probe gives a timeout.
Probe(url, size) == [url |-> url, timeout |-> NoTimeout, size |-> size]
CatalogShapes == {<<0, 0, 0>>, <<2, 2, 2>>, <<3, 1, 1>>}
Catalog(shape) ==
    [mid |-> "mid", lid |-> "lid",
     download |-> [k \in 1..shape[1] |-> Probe(k - 1, 0)],
     latency |-> [k \in 1..shape[2] |-> Probe(k - 1, 0)],
     upload |-> [k \in 1..shape[3] |-> Probe(k - 1, (k - 1) * (ChunkSize + 1))]]
Catalogs == {Catalog(shape) : shape \in CatalogShapes}
NoCatalog == [mid |-> "", lid |-> "", download |-> <<>>, latency |-> <<>>, upload |-> <<>>]

\* ------------------------------------------------------------- tasks
\* The frame of one measure_* coroutine: its arguments, its locals, the place
\* it is suspended at, and how it ended.
NewTask(kind, id, url, timeout, size, attempts) ==
    [kind |-> kind, id |-> id, pc |-> "start",
     url |-> url, timeout |-> timeout, size |-> size, attempts |-> attempts,
     session |-> 0, t0 |-> 0, total_bytes |-> 0, nread |-> 0,
     times |-> <<>>, sent |-> <<>>, i |-> 0,
     after |-> "", fault |-> "none", gets |-> 0, exhausted |-> FALSE,
     http |-> 0, net |-> <<>>,
     status |-> "running", value |-> <<>>]

\* return value: the coroutine ends; its locals are gone.
Returned(tk, value) ==
    [tk EXCEPT !.pc = "done", !.status = "returned", !.value = value,
               !.session = 0, !.t0 = 0, !.after = ""]

\* An exception leaves the coroutine.
Raised(tk) ==
    [tk EXCEPT !.pc = "done", !.status = "raised",
               !.session = 0, !.t0 = 0, !.after = ""]

\* The first thing the network did to a call that its code treats as a failure.
Fault(tk, what) == IF tk.fault = "none" THEN [tk EXCEPT !.fault = what] ELSE tk

Done(tk) == tk.pc \in {"done", "cancelled"}

\* `if not timeout: timeout = 10`
DefaultTimeout(timeout) ==
    IF ~timeout.given \/ timeout.v = 0 THEN 10 ELSE timeout.v

\* ---------------------------------------------------------- sessions
\* aiohttp.ClientSession(headers=self.DEFAULT_HEADERS, ...) entered by a call:
\* a new object, named after the call that created it.
OpenSession(tk) ==
    sessions' = [s \in DOMAIN sessions \cup {tk.id} |->
                    IF s = tk.id
                    THEN [owner |-> tk.id, users |-> {}, headers |-> DEFAULT_HEADERS,
                          connect |-> DefaultTimeout(tk.timeout)]
                    ELSE sessions[s]]

\* A faulty variant of SessionOf: one session kept on the client and shared by its calls.
SessionOfShared(tk) ==
    CHOOSE s \in DOMAIN sessions : \A t \in DOMAIN sessions : s <= t

\* The session a call sends its requests on: its own local `session`.
SessionOf(tk) == tk.session

\* session.get / session.post by a call.
UseSession(tk) ==
    sessions' = [sessions EXCEPT ![SessionOf(tk)].users = @ \cup {tk.id}]

\* A faulty variant of CloseSession: the session is never closed.
CloseSessionLeak(tk) == sessions' = sessions

\* Leaving `async with aiohttp.ClientSession(...) as session`: the session is
\* closed whether close() returns or raises.
CloseSession(tk) ==
    sessions' = [s \in DOMAIN sessions \ {tk.session} |-> sessions[s]]

\* ------------------------------------------------------ run's frame
\* SpeedResult, and one round's triple of the same shape.
SpeedResult(ping, download, upload) ==
    [ping_ms |-> ping, download_mbps |-> download, upload_mbps |-> upload]

\* No run(count) has been called: no round, no sample, no result.
NoRun ==
    [pc |-> "idle", count |-> 0, category |-> "",
     transfers |-> <<>>, pings |-> <<>>,
     round |-> SpeedResult(Float(0), Float(0), Float(0)),
     rounds |-> <<>>, result |-> <<>>]

\* -------------------------------------------------------------- Init
Init ==
    /\ main_pc = "create"
    /\ ya = "none"
    /\ DEFAULT_HEADERS = DefaultHeaderKeys
    /\ session_headers = {}
    /\ probes = NoCatalog
    /\ mid = ""
    /\ lid = ""
    /\ fetches = 0
    /\ bootstrap = ""
    /\ error = "none"
    /\ tasks = <<>>
    /\ sessions = <<>>
    /\ next_call = 0
    /\ now = 0
    /\ run = NoRun

\* ------------------------------------------------------- construction
\* What the catalog endpoint can answer to the bootstrap GET.
BootstrapOutcomes == {"transport_error", "http_error", "bad_json", "invalid_catalog", "ok"}

\* A faulty variant of StartProcessRaise: the failure is swallowed and a client is handed out.
StartProcessSwallow(exception) ==
    /\ main_pc' = "ready"
    /\ error' = "none"
    /\ ya' = "ready"

\* __start_proccess raises: the exception leaves __init__, the caller gets no
\* client and main() ends with the error.
StartProcessRaise(exception) ==
    /\ main_pc' = "raised"
    /\ error' = exception
    /\ ya' = "none"

\* YaSpeedTest(): __init__ followed by __start_proccess, one synchronous call.
Create ==
    /\ main_pc = "create"
    /\ fetches' = fetches + 1
    /\ UNCHANGED <<DEFAULT_HEADERS, tasks, sessions, next_call, now, run>>
    /\ \E outcome \in BootstrapOutcomes :
        /\ bootstrap' = outcome
        /\ \/ /\ outcome = "transport_error"       \* session.get raises
              /\ session_headers' = DEFAULT_HEADERS
              /\ UNCHANGED <<probes, mid, lid>>
              /\ StartProcessRaise("RequestException")
           \/ /\ outcome = "http_error"            \* not r.ok
              /\ session_headers' = DEFAULT_HEADERS
              /\ UNCHANGED <<probes, mid, lid>>
              /\ StartProcessRaise("YandexAPIError")
           \/ /\ outcome = "bad_json"              \* r.json() raises
              /\ session_headers' = DEFAULT_HEADERS \cup ResponseHeaderKeys
              /\ UNCHANGED <<probes, mid, lid>>
              /\ StartProcessRaise("JSONDecodeError")
           \/ /\ outcome = "invalid_catalog"       \* ProbesResponse.model_validate raises
              /\ session_headers' = DEFAULT_HEADERS \cup ResponseHeaderKeys
              /\ UNCHANGED <<probes, mid, lid>>
              /\ StartProcessRaise("ValidationError")
           \/ /\ outcome = "ok"
              /\ session_headers' = DEFAULT_HEADERS \cup ResponseHeaderKeys
              /\ \E catalog \in Catalogs :
                   /\ probes' = catalog
                   /\ mid' = catalog.mid
                   /\ lid' = catalog.lid
              /\ main_pc' = "ready"
              /\ error' = "none"
              /\ ya' = "ready"

\* ------------------------------------------------------------- clock
Tick ==
    /\ now < MaxClock
    /\ now' = now + 1
    /\ UNCHANGED <<main_pc, clientVars, run, error, tasks, sessions, next_call>>

\* A faulty variant of TaskStep: a step of a call fetches the catalog again.
TaskStepRefetch(i, tk) ==
    /\ tasks' = [tasks EXCEPT ![i] = tk]
    /\ fetches' = fetches + 1
    /\ UNCHANGED <<main_pc, ya, DEFAULT_HEADERS, session_headers, probes, mid, lid,
                   bootstrap, error, next_call, now, run>>

\* A step of task i that touches nothing but its own frame and the sessions.
TaskStep(i, tk) ==
    /\ tasks' = [tasks EXCEPT ![i] = tk]
    /\ UNCHANGED <<main_pc, clientVars, run, error, next_call, now>>

Running(i, kind, pc) ==
    /\ i \in DOMAIN tasks
    /\ tasks[i].kind = kind
    /\ tasks[i].pc = pc

\* --------------------------------------------------- measure_download
\* A faulty variant of DownloadExcept: the exception is not caught.
DownloadExceptReraise(tk) == Raised(tk)

\* `except Exception: return float('inf'), 0`
DownloadExcept(tk) == Returned(tk, Sentinel)

\* `if resp.status != 200: return float('inf'), 0`
DownloadStatusOK(status) == status = StatusOK

\* A faulty variant of DownloadResult: the difference is taken the wrong way round.
DownloadResultSwapped(tk) == <<Float(tk.t0 - now), tk.total_bytes>>

\* `t1 = time.perf_counter(); return t1 - t0, total_bytes`
DownloadResult(tk) == <<Float(now - tk.t0), tk.total_bytes>>

\* Lines 76-84: the timeout default, t0, and entering the ClientSession.
DownloadOpen(i) ==
    /\ Running(i, "download", "start")
    /\ LET tk == [tasks[i] EXCEPT !.t0 = now, !.total_bytes = 0] IN
        \/ /\ OpenSession(tk)
           /\ TaskStep(i, [tk EXCEPT !.pc = "get", !.session = tk.id])
        \/ /\ UNCHANGED sessions
           /\ TaskStep(i, DownloadExcept(Fault(tk, "open")))

\* Line 85-87: session.get(url) answers with a status, or raises.
DownloadGet(i) ==
    /\ Running(i, "download", "get")
    /\ UseSession(tasks[i])
    /\ LET tk == [tasks[i] EXCEPT !.gets = @ + 1] IN
        \/ \E status \in Statuses :
             IF DownloadStatusOK(status)
             THEN TaskStep(i, [tk EXCEPT !.pc = "read"])
             ELSE TaskStep(i, [Fault(tk, "status") EXCEPT !.pc = "close", !.after = "return"])
        \/ TaskStep(i, [Fault(tk, "connect") EXCEPT !.pc = "close", !.after = "except"])

\* A faulty variant of DownloadChunk: the count is overwritten by the chunk's length.
DownloadChunkOverwrite(tk, chunk) ==
    [tk EXCEPT !.total_bytes = chunk, !.nread = @ + 1]

\* `total_bytes += len(chunk)`
DownloadChunk(tk, chunk) ==
    [tk EXCEPT !.total_bytes = @ + chunk, !.nread = @ + 1]

\* Lines 88-89: one turn of `async for chunk in resp.content.iter_chunked(...)`.
DownloadRead(i) ==
    /\ Running(i, "download", "read")
    /\ UNCHANGED sessions
    /\ LET tk == tasks[i] IN
        \/ /\ tk.nread < Len(Body(tk.url))
           /\ TaskStep(i, DownloadChunk(tk, Body(tk.url)[tk.nread + 1]))
        \/ /\ tk.nread = Len(Body(tk.url))
           /\ TaskStep(i, [tk EXCEPT !.pc = "close", !.after = "end"])
        \/ TaskStep(i, [Fault(tk, "read") EXCEPT !.pc = "close", !.after = "except"])

\* Leaving the session's `async with` (close() returns or raises), then
\* lines 90-93.
DownloadClose(i) ==
    /\ Running(i, "download", "close")
    /\ CloseSession(tasks[i])
    /\ LET tk == tasks[i] IN
        \/ /\ tk.after = "end"
           /\ TaskStep(i, Returned(tk, DownloadResult(tk)))
        \/ /\ tk.after = "return"
           /\ TaskStep(i, Returned(tk, Sentinel))
        \/ /\ tk.after = "except"
           /\ TaskStep(i, DownloadExcept(tk))
        \/ TaskStep(i, DownloadExcept(Fault(tk, "close")))

\* ---------------------------------------------------- measure_latency
\* sorted(data), as statistics.median sorts its argument.
RECURSIVE Insert(_, _)
Insert(x, sorted) ==
    IF sorted = <<>> THEN <<x>>
    ELSE IF x <= Head(sorted) THEN <<x>> \o sorted
    ELSE <<Head(sorted)>> \o Insert(x, Tail(sorted))

RECURSIVE Sorted(_)
Sorted(data) ==
    IF data = <<>> THEN <<>> ELSE Insert(Head(data), Sorted(Tail(data)))

\* A faulty variant of Median: the middle of the list as recorded, not of the sorted list.
MedianUnsorted(times) ==
    LET n == Len(times)
    IN  IF n % 2 = 1
        THEN Float(times[(n \div 2) + 1])
        ELSE [finite |-> TRUE, num |-> times[n \div 2] + times[(n \div 2) + 1], den |-> 2]

\* statistics.median(times), for a non-empty list.
Median(times) ==
    LET data == Sorted(times)
        n == Len(data)
    IN  IF n % 2 = 1
        THEN Float(data[(n \div 2) + 1])
        ELSE [finite |-> TRUE, num |-> data[n \div 2] + data[(n \div 2) + 1], den |-> 2]

\* Lines 127-129.
LatencyResult(times) == IF times = <<>> THEN Inf ELSE Median(times)

\* `t1 = time.perf_counter(); times.append((t1 - t0) * 1000)`
LatencyMeasured(tk) == [tk EXCEPT !.times = Append(@, (now - tk.t0) * 1000)]

\* A faulty variant of LatencyFailed: a failed attempt is dropped.
LatencyFailedDropped(tk) == tk

\* `except Exception: times.append(10000)`
LatencyFailed(tk) == [tk EXCEPT !.times = Append(@, Penalty)]

\* A faulty variant of LatencyLoop: the loop runs one attempt too many.
LatencyLoopOneMore(tk) ==
    IF tk.i <= tk.attempts
    THEN [tk EXCEPT !.pc = "get", !.t0 = now, !.http = 0]
    ELSE [tk EXCEPT !.pc = "close", !.http = 0]

\* The head of `for _ in range(attempts)`: the next attempt takes t0 and
\* issues its GET, or the loop is over and the session's block is left.
LatencyLoop(tk) ==
    IF tk.i < tk.attempts
    THEN [tk EXCEPT !.pc = "get", !.t0 = now, !.http = 0]
    ELSE [tk EXCEPT !.pc = "close", !.http = 0]

\* Lines 109-116: times = [], the timeout default, entering the ClientSession
\* (outside any try).
LatencyOpen(i) ==
    /\ Running(i, "latency", "start")
    /\ LET tk == [tasks[i] EXCEPT !.times = <<>>, !.i = 0] IN
        \/ /\ OpenSession(tk)
           /\ TaskStep(i, LatencyLoop([tk EXCEPT !.session = tk.id]))
        \/ /\ UNCHANGED sessions
           /\ TaskStep(i, Raised(Fault(tk, "open")))

\* Line 119: session.get(url) answers (with any status), or raises.
LatencyGet(i) ==
    /\ Running(i, "latency", "get")
    /\ UseSession(tasks[i])
    /\ LET tk == [tasks[i] EXCEPT !.gets = @ + 1] IN
        \/ \E status \in Statuses : TaskStep(i, [tk EXCEPT !.pc = "read", !.http = status])
        \/ TaskStep(i, [LatencyFailed(Fault(tk, "connect")) EXCEPT
                            !.pc = "sleep", !.net = Append(@, "fail")])

\* Lines 120-124: r.read() returns, or raises.
LatencyRead(i) ==
    /\ Running(i, "latency", "read")
    /\ UNCHANGED sessions
    /\ LET tk == tasks[i] IN
        \/ TaskStep(i, [LatencyMeasured(tk) EXCEPT !.pc = "sleep", !.net = Append(@, "ok")])
        \/ TaskStep(i, [LatencyFailed(Fault(tk, "read")) EXCEPT
                            !.pc = "sleep", !.http = 0, !.net = Append(@, "fail")])

\* Line 125: asyncio.sleep(0.05) is over; back to the head of the loop.
LatencySleep(i) ==
    /\ Running(i, "latency", "sleep")
    /\ UNCHANGED sessions
    /\ TaskStep(i, LatencyLoop([tasks[i] EXCEPT !.i = @ + 1]))

\* Leaving the session's `async with`, then lines 127-129.
LatencyClose(i) ==
    /\ Running(i, "latency", "close")
    /\ CloseSession(tasks[i])
    /\ LET tk == tasks[i] IN
        \/ TaskStep(i, Returned(tk, LatencyResult(tk.times)))
        \/ TaskStep(i, Raised(Fault(tk, "close")))

\* ----------------------------------------------------- measure_upload
\* `chunks = size // len(chunk)` and `tail = size % len(chunk)`
Chunks(size) == size \div ChunkSize
TailLen(size) == size % ChunkSize

\* A faulty variant of GenNext: the tail chunk is never yielded.
GenNextNoTail(size, k) == IF k < Chunks(size) THEN ChunkSize ELSE 0

\* gen(): the length of the chunk its k-th resumption yields (k from 0), or 0
\* when it is exhausted.
GenNext(size, k) ==
    IF k < Chunks(size) THEN ChunkSize
    ELSE IF k = Chunks(size) /\ TailLen(size) # 0 THEN TailLen(size)
    ELSE 0

\* `except Exception: return float('inf'), 0` and the status check's return:
\* both leave through the session's `async with`.
UploadExcept(tk) == [tk EXCEPT !.pc = "close", !.after = "return"]

\* `t1 = time.perf_counter(); return t1 - t0, size`
UploadResult(tk) == <<Float(now - tk.t0), tk.size>>

\* An exception raised by the ClientSession's own __aenter__ / __aexit__ is
\* outside the try of lines 173-179.
UploadSessionError(tk) == Raised(tk)

\* Lines 157-172: the timeout default, the generator, t0, entering the
\* ClientSession.
UploadOpen(i) ==
    /\ Running(i, "upload", "start")
    /\ LET tk == [tasks[i] EXCEPT !.t0 = now, !.sent = <<>>] IN
        \/ /\ OpenSession(tk)
           /\ TaskStep(i, [tk EXCEPT !.pc = "post", !.session = tk.id])
        \/ /\ UNCHANGED sessions
           /\ TaskStep(i, UploadSessionError(Fault(tk, "open")))

\* Line 174: session.post(url, data=gen()) connects and writes the payload,
\* one chunk of gen() per step; then the response's status arrives.
UploadPost(i) ==
    /\ Running(i, "upload", "post")
    /\ UseSession(tasks[i])
    /\ LET tk == IF tasks[i].gets = 0 THEN [tasks[i] EXCEPT !.gets = 1] ELSE tasks[i]
           n == GenNext(tk.size, Len(tk.sent))
       IN
        \/ /\ n # 0
           /\ TaskStep(i, [tk EXCEPT !.sent = Append(@, n)])
        \/ /\ n = 0
           /\ \E status \in Statuses :
                IF status = StatusOK
                THEN TaskStep(i, [tk EXCEPT !.pc = "read", !.exhausted = TRUE])
                ELSE TaskStep(i, UploadExcept(Fault([tk EXCEPT !.exhausted = TRUE], "status")))
        \/ TaskStep(i, UploadExcept(Fault(tk, IF tk.sent = <<>> THEN "connect" ELSE "stream")))

\* Line 177: r.read() returns, or raises.
UploadRead(i) ==
    /\ Running(i, "upload", "read")
    /\ UNCHANGED sessions
    /\ LET tk == tasks[i] IN
        \/ TaskStep(i, [tk EXCEPT !.pc = "close", !.after = "end"])
        \/ TaskStep(i, UploadExcept(Fault(tk, "read")))

\* Leaving the session's `async with`, then lines 180-181.
UploadClose(i) ==
    /\ Running(i, "upload", "close")
    /\ CloseSession(tasks[i])
    /\ LET tk == tasks[i] IN
        \/ /\ tk.after = "end"
           /\ TaskStep(i, Returned(tk, UploadResult(tk)))
        \/ /\ tk.after = "return"
           /\ TaskStep(i, Returned(tk, Sentinel))
        \/ TaskStep(i, UploadSessionError(Fault(tk, "close")))

\* ------------------------------------------- one_by_one.py: main()
Categories == {"download", "latency", "upload"}

AllReturned == \A i \in DOMAIN tasks : tasks[i].status = "returned"
SomeRaised == \E i \in DOMAIN tasks : tasks[i].status = "raised"

\* One coroutine per probe of the category, handed to asyncio.gather.
\* one_by_one.py passes (url, timeout) to measure_download and
\* measure_latency (attempts keeps its default) and (url, size, timeout) to
\* measure_upload.
Spawn(category) ==
    [k \in 1..Len(probes[category]) |->
        NewTask(category, next_call + k, probes[category][k].url,
                probes[category][k].timeout,
                probes[category][k].size,
                IF category = "latency" THEN DefaultAttempts ELSE 0)]

FanOut(from, category) ==
    /\ main_pc = from
    /\ AllReturned
    /\ main_pc' = category
    /\ tasks' = Spawn(category)
    /\ next_call' = next_call + Len(probes[category])
    /\ UNCHANGED <<clientVars, run, error, sessions, now>>

\* Lines 9-17.
FanOutDownload == FanOut("ready", "download")
\* Lines 20-28: gather of the downloads has returned.
FanOutLatency == FanOut("download", "latency")
\* Lines 31-39.
FanOutUpload == FanOut("latency", "upload")

\* Line 39: the last gather returns and main() ends.
Finish ==
    /\ main_pc = "upload"
    /\ AllReturned
    /\ main_pc' = "done"
    /\ UNCHANGED <<clientVars, run, error, tasks, sessions, next_call, now>>

\* asyncio.gather without return_exceptions: the first exception of a task is
\* raised by `await asyncio.gather(...)`, main() ends with it, and
\* asyncio.run cancels the tasks still running (their `async with` blocks
\* close their sessions).
GatherRaise ==
    /\ main_pc \in Categories
    /\ SomeRaised
    /\ main_pc' = "raised"
    /\ error' = "probe"
    /\ tasks' = [i \in DOMAIN tasks |->
                    IF Done(tasks[i]) THEN tasks[i]
                    ELSE [tasks[i] EXCEPT !.pc = "cancelled", !.status = "cancelled",
                                          !.session = 0]]
    /\ sessions' = [s \in {x \in DOMAIN sessions :
                              \A i \in DOMAIN tasks : Done(tasks[i]) \/ tasks[i].session # x}
                     |-> sessions[s]]
    /\ UNCHANGED <<clientVars, run, next_call, now>>

\* ------------------------------------------------ a caller's own calls
CallIdle ==
    /\ main_pc = "ready"
    /\ ya = "ready"
    /\ next_call < MaxCalls
    /\ \A i \in DOMAIN tasks : Done(tasks[i])

Call(task) ==
    /\ CallIdle
    /\ tasks' = <<task>>
    /\ next_call' = next_call + 1
    /\ UNCHANGED <<main_pc, clientVars, run, error, sessions, now>>

CallDownload ==
    \E url \in Urls, timeout \in Timeouts :
        Call(NewTask("download", next_call + 1, url, timeout, 0, 0))

CallLatency ==
    \E timeout \in Timeouts, attempts \in 0..MaxAttempts :
        Call(NewTask("latency", next_call + 1, 0, timeout, 0, attempts))

CallUpload ==
    \E timeout \in Timeouts, size \in Sizes :
        Call(NewTask("upload", next_call + 1, 0, timeout, size, 0))

\* ---------------------------------------------------------- run(count)
\* Float arithmetic on exact fractions num / den, kept in lowest terms.
RECURSIVE GCD(_, _)
GCD(a, b) == IF b = 0 THEN a ELSE GCD(b, a % b)

Ratio(n, d) ==
    IF n = 0 THEN Float(0)
    ELSE [finite |-> TRUE, num |-> n \div GCD(n, d), den |-> d \div GCD(n, d)]

FloatAdd(a, b) ==
    LET l == (a.den \div GCD(a.den, b.den)) * b.den
    IN  Ratio(a.num * (l \div a.den) + b.num * (l \div b.den), l)

FloatLeq(a, b) ==
    \/ ~b.finite
    \/ a.finite /\ a.num * b.den <= b.num * a.den

RECURSIVE FloatSum(_)
FloatSum(values) ==
    IF values = <<>> THEN Float(0) ELSE FloatAdd(Head(values), FloatSum(Tail(values)))

\* max(elapsed_i) over the samples of a category, +infinity among them.
RECURSIVE MaxElapsed(_)
MaxElapsed(samples) ==
    IF Len(samples) = 1 THEN samples[1][1]
    ELSE LET rest == MaxElapsed(Tail(samples))
         IN  IF FloatLeq(rest, samples[1][1]) THEN samples[1][1] ELSE rest

RECURSIVE TotalBytes(_)
TotalBytes(samples) ==
    IF samples = <<>> THEN 0 ELSE samples[1][2] + TotalBytes(Tail(samples))

RECURSIVE SumElapsed(_)
SumElapsed(samples) ==
    IF samples = <<>> THEN Float(0)
    ELSE IF ~samples[1][1].finite \/ ~SumElapsed(Tail(samples)).finite THEN Inf
    ELSE FloatAdd(samples[1][1], SumElapsed(Tail(samples)))

\* A faulty variant of Throughput: the elapsed times are added up instead of
\* their maximum being taken.
ThroughputOverSum(samples) ==
    IF \A k \in DOMAIN samples : samples[k] = Sentinel THEN Float(0)
    ELSE IF ~SumElapsed(samples).finite THEN Float(0)
    ELSE Ratio(TotalBytes(samples) * 8 * SumElapsed(samples).den,
               1000000 * SumElapsed(samples).num)

\* The Aggregator's throughput of one category in one round, in Mbps:
\* sum(bytes) * 8 / 1_000_000 / max(elapsed), and 0 when every sample is the
\* failure sentinel.  A sentinel among successes makes max(elapsed) +infinity
\* and the quotient 0.
Throughput(samples) ==
    IF \A k \in DOMAIN samples : samples[k] = Sentinel THEN Float(0)
    ELSE IF ~MaxElapsed(samples).finite THEN Float(0)
    ELSE Ratio(TotalBytes(samples) * 8 * MaxElapsed(samples).den,
               1000000 * MaxElapsed(samples).num)

\* The Aggregator's latency of one round: the value of the only latency
\* probe, the median of the values when there are several.
RoundLatency(pings) == IF Len(pings) = 1 THEN Float(pings[1]) ELSE Median(pings)

\* The cross-round reducer: the arithmetic mean of the per-round values.
Mean(values) ==
    LET total == FloatSum(values)
    IN  Ratio(total.num, total.den * Len(values))

\* What one probe of a round's fan-out hands back.  measure_download returns
\* the sentinel or (elapsed, bytes) (lines 87, 91, 93); measure_upload returns
\* the sentinel or (elapsed, size) (lines 176, 179, 181) or raises (line 172);
\* measure_latency returns the median of its five values (line 129) or raises
\* (line 115).
SampleSeconds == {1, 2}
SampleBytes == {6250000}
SampleMillis == {20, Penalty}
DownloadReturns(probe) == {Sentinel} \cup {<<Float(e), b>> : e \in SampleSeconds, b \in SampleBytes}
UploadReturns(probe) == {Sentinel, <<Float(1), probe.size>>}
LatencyReturns(probe) == SampleMillis
Raises(category) == category \in {"upload", "latency"}

RunOrder == <<"download", "upload", "latency">>
NextCategory(category) ==
    IF category = "download" THEN "upload"
    ELSE IF category = "upload" THEN "latency"
    ELSE "download"

\* `result = await ya.run(count)` (cli.py line 25, full.py line 8): run is
\* entered with a positive count on a client whose catalog has a probe in
\* every group.
RunStart ==
    /\ main_pc = "ready"
    /\ ya = "ready"
    /\ run.pc = "idle"
    /\ \A category \in Categories : probes[category] # <<>>
    /\ \E count \in 1..MaxCount :
         run' = [run EXCEPT !.pc = "gather", !.count = count, !.category = "download"]
    /\ main_pc' = "run"
    /\ UNCHANGED <<clientVars, error, tasks, sessions, next_call, now>>

\* One category of a round: one call per probe of the group, run concurrently
\* and joined; every call returned.
RunGather ==
    /\ main_pc = "run"
    /\ run.pc = "gather"
    /\ LET group == probes[run.category] IN
        \/ /\ run.category = "download"
           /\ \E samples \in [DOMAIN group -> UNION {DownloadReturns(group[k]) : k \in DOMAIN group}] :
                /\ \A k \in DOMAIN group : samples[k] \in DownloadReturns(group[k])
                /\ run' = [run EXCEPT !.pc = "aggregate", !.transfers = samples, !.pings = <<>>]
        \/ /\ run.category = "upload"
           /\ \E samples \in [DOMAIN group -> UNION {UploadReturns(group[k]) : k \in DOMAIN group}] :
                /\ \A k \in DOMAIN group : samples[k] \in UploadReturns(group[k])
                /\ run' = [run EXCEPT !.pc = "aggregate", !.transfers = samples, !.pings = <<>>]
        \/ /\ run.category = "latency"
           /\ \E samples \in [DOMAIN group -> UNION {LatencyReturns(group[k]) : k \in DOMAIN group}] :
                run' = [run EXCEPT !.pc = "aggregate", !.pings = samples, !.transfers = <<>>]
    /\ UNCHANGED <<main_pc, clientVars, error, tasks, sessions, next_call, now>>

\* One category of a round in which a call raised: the join hands the
\* exception to run, which has no handler for it, and run ends with it.
RunGatherRaise ==
    /\ main_pc = "run"
    /\ run.pc = "gather"
    /\ Raises(run.category)
    /\ run' = [run EXCEPT !.pc = "raised", !.transfers = <<>>, !.pings = <<>>]
    /\ main_pc' = "raised"
    /\ error' = "probe"
    /\ UNCHANGED <<clientVars, tasks, sessions, next_call, now>>

\* The samples of the category are reduced to the round's value for it; after
\* the last category the round's triple is complete and joins the sequence.
RunAggregate ==
    /\ main_pc = "run"
    /\ run.pc = "aggregate"
    /\ LET round ==
            IF run.category = "download"
            THEN [run.round EXCEPT !.download_mbps = Throughput(run.transfers)]
            ELSE IF run.category = "upload"
            THEN [run.round EXCEPT !.upload_mbps = Throughput(run.transfers)]
            ELSE [run.round EXCEPT !.ping_ms = RoundLatency(run.pings)]
           last == run.category = RunOrder[Len(RunOrder)]
           rounds == IF last THEN Append(run.rounds, round) ELSE run.rounds
       IN  run' = [run EXCEPT !.round = round,
                              !.rounds = rounds,
                              !.category = NextCategory(@),
                              !.pc = IF last /\ Len(rounds) = run.count
                                     THEN "reduce" ELSE "gather"]
    /\ UNCHANGED <<main_pc, clientVars, error, tasks, sessions, next_call, now>>

\* After the last round the cross-round reducer makes the SpeedResult, and
\* run returns it.
RunReduce ==
    /\ main_pc = "run"
    /\ run.pc = "reduce"
    /\ run' = [run EXCEPT
                 !.pc = "done",
                 !.result = <<SpeedResult(
                     Mean([k \in DOMAIN run.rounds |-> run.rounds[k].ping_ms]),
                     Mean([k \in DOMAIN run.rounds |-> run.rounds[k].download_mbps]),
                     Mean([k \in DOMAIN run.rounds |-> run.rounds[k].upload_mbps]))>>]
    /\ main_pc' = "done"
    /\ UNCHANGED <<clientVars, error, tasks, sessions, next_call, now>>

\* ---------------------------------------------------- specifications
\* The program of one_by_one.py.  Its clock is read at one instant (every
\* perf_counter difference is 0): what the measured times are is followed
\* under SpecCall.
Next ==
    \/ Create
    \/ FanOutDownload \/ FanOutLatency \/ FanOutUpload \/ Finish \/ GatherRaise
    \/ \E i \in DOMAIN tasks : DownloadOpen(i)
    \/ \E i \in DOMAIN tasks : DownloadGet(i)
    \/ \E i \in DOMAIN tasks : DownloadRead(i)
    \/ \E i \in DOMAIN tasks : DownloadClose(i)
    \/ \E i \in DOMAIN tasks : LatencyOpen(i)
    \/ \E i \in DOMAIN tasks : LatencyGet(i)
    \/ \E i \in DOMAIN tasks : LatencyRead(i)
    \/ \E i \in DOMAIN tasks : LatencySleep(i)
    \/ \E i \in DOMAIN tasks : LatencyClose(i)
    \/ \E i \in DOMAIN tasks : UploadOpen(i)
    \/ \E i \in DOMAIN tasks : UploadPost(i)
    \/ \E i \in DOMAIN tasks : UploadRead(i)
    \/ \E i \in DOMAIN tasks : UploadClose(i)

Spec == Init /\ [][Next]_vars

\* A caller that constructs the client and awaits measure_* calls one at a time,
\* on any arguments.
NextCall ==
    \/ Create
    \/ CallDownload \/ CallLatency \/ CallUpload
    \/ \E i \in DOMAIN tasks : DownloadOpen(i)
    \/ \E i \in DOMAIN tasks : DownloadGet(i)
    \/ \E i \in DOMAIN tasks : DownloadRead(i)
    \/ \E i \in DOMAIN tasks : DownloadClose(i)
    \/ \E i \in DOMAIN tasks : LatencyOpen(i)
    \/ \E i \in DOMAIN tasks : LatencyGet(i)
    \/ \E i \in DOMAIN tasks : LatencyRead(i)
    \/ \E i \in DOMAIN tasks : LatencySleep(i)
    \/ \E i \in DOMAIN tasks : LatencyClose(i)
    \/ \E i \in DOMAIN tasks : UploadOpen(i)
    \/ \E i \in DOMAIN tasks : UploadPost(i)
    \/ \E i \in DOMAIN tasks : UploadRead(i)
    \/ \E i \in DOMAIN tasks : UploadClose(i)
    \/ Tick

SpecCall == Init /\ [][NextCall]_vars

\* The program of cli.py and full.py: the client is constructed and run(count)
\* is awaited once.
NextRun ==
    \/ Create
    \/ RunStart
    \/ RunGather
    \/ RunGatherRaise
    \/ RunAggregate
    \/ RunReduce

SpecRun == Init /\ [][NextRun]_vars

\* ------------------------------------------------------------- claims
Tasks == {tasks[i] : i \in DOMAIN tasks}
Calls(kind) == {tk \in Tasks : tk.kind = kind}
Transfers == {tk \in Tasks : tk.kind \in {"download", "upload"} /\ tk.status = "returned"}

RECURSIVE Sum(_)
Sum(seq) == IF seq = <<>> THEN 0 ELSE Head(seq) + Sum(Tail(seq))

\* C1: measure_download never raises; whenever the network fails it (session
\* creation, connect, a non-200 status, a chunk read, closing the session) the
\* call returns exactly the failure sentinel (+infinity, 0).
C1_DownloadNeverRaises ==
    \A tk \in Calls("download") :
        /\ tk.status # "raised"
        /\ (tk.status = "returned" /\ tk.fault # "none") => tk.value = Sentinel

\* A download whose body failed after a first chunk was read has returned the sentinel.
C1_Witness ==
    \E tk \in Calls("download") :
        tk.status = "returned" /\ tk.fault = "read" /\ tk.nread > 0 /\ tk.value = Sentinel

\* C2: measure_upload never raises and has two outcomes: the sentinel on any
\* error (session creation and closing included), (finite elapsed, size) on
\* success.
C2_UploadTwoOutcomes ==
    \A tk \in Calls("upload") :
        /\ tk.status # "raised"
        /\ tk.status = "returned" =>
            IF tk.fault = "none"
            THEN tk.value[1].finite /\ tk.value[2] = tk.size
            ELSE tk.value = Sentinel

\* C3: in a fan-out joined with gather, a failing probe resolves to its own
\* sentinel only: the join does not raise, no sibling is cancelled, and a task
\* the network did not fail returns a success.
C3_FanOutIsolatesFailures ==
    /\ error # "probe"
    /\ \A tk \in Tasks :
        /\ tk.status # "cancelled"
        /\ (tk.status = "returned" /\ tk.fault = "none") =>
            IF tk.kind = "latency" THEN tk.value.finite ELSE tk.value[1].finite

\* C4 as stated: bytes == 0 iff elapsed is +infinity, and a successful sample
\* has bytes > 0 and a finite elapsed >= 0.
C4_BytesZeroIffSentinel ==
    \A tk \in Transfers :
        /\ tk.value[2] = 0 <=> tk.value[1] = Inf
        /\ tk.value[1].finite => tk.value[2] > 0 /\ tk.value[1].num >= 0

\* C4 as amended: elapsed = +infinity implies bytes = 0; a successful sample has
\* a finite elapsed >= 0 and bytes >= 0, the bytes being 0 exactly when the
\* response body was empty (download) or size = 0 (upload).
C4_SentinelHasZeroBytes ==
    \A tk \in Transfers :
        /\ tk.value[1] = Inf => tk.value[2] = 0
        /\ tk.value[1] # Inf =>
            /\ tk.value[1].finite /\ tk.value[1].num >= 0 /\ tk.value[1].den = 1
            /\ tk.value[2] >= 0
            /\ tk.value[2] = 0 <=>
                IF tk.kind = "download" THEN Sum(Body(tk.url)) = 0 ELSE tk.size = 0

\* A download of an empty body that succeeded: finite elapsed, 0 bytes.
C4_Witness ==
    \E tk \in Transfers :
        tk.kind = "download" /\ tk.fault = "none" /\ tk.value[1].finite /\ tk.value[2] = 0

\* C5: in measure_latency every attempt records exactly one value, in attempt
\* order: after k attempts the list has k entries; a transport failure records
\* the penalty 10000, a completed exchange (whatever its status) records the
\* measured (t1 - t0) * 1000.
C5_OnePerAttempt ==
    \A tk \in Calls("latency") :
        /\ Len(tk.times) = Len(tk.net)
        /\ tk.pc \in {"get", "read"} => Len(tk.times) = tk.i
        /\ tk.pc = "sleep" => Len(tk.times) = tk.i + 1
        /\ (tk.pc = "close" \/ tk.status = "returned") =>
                Len(tk.times) = tk.attempts /\ tk.i = tk.attempts
        /\ \A k \in 1..Len(tk.net) : tk.net[k] = "fail" => tk.times[k] = Penalty

C5_AttemptStep ==
    \A i \in DOMAIN tasks :
        (/\ i \in DOMAIN tasks'
         /\ tasks[i].kind = "latency"
         /\ tasks'[i].id = tasks[i].id
         /\ tasks[i].pc \in {"get", "read"}
         /\ tasks'[i].pc = "sleep") =>
            /\ Len(tasks'[i].net) = Len(tasks[i].net) + 1
            /\ tasks'[i].times =
                Append(tasks[i].times,
                       IF tasks'[i].net[Len(tasks'[i].net)] = "ok"
                       THEN (now - tasks[i].t0) * 1000
                       ELSE Penalty)

C5_EveryAttemptRecorded == []C5_OnePerAttempt /\ [][C5_AttemptStep]_vars

\* An attempt answered with status 500 has recorded its measured time after
\* an earlier attempt recorded the penalty.
C5_Witness ==
    \E tk \in Calls("latency") :
        /\ tk.pc = "sleep" /\ tk.http = 500
        /\ Len(tk.times) = 2
        /\ tk.net = <<"fail", "ok">>
        /\ tk.times[1] = Penalty /\ tk.times[2] = 1000

\* The k-th smallest value of a list, by counting.
KthSmallest(times, k) ==
    CHOOSE x \in {times[j] : j \in DOMAIN times} :
        /\ Cardinality({j \in DOMAIN times : times[j] < x}) < k
        /\ Cardinality({j \in DOMAIN times : times[j] <= x}) >= k

\* Twice the standard median of a non-empty list.
TwiceStandardMedian(times) ==
    LET n == Len(times)
    IN  IF n % 2 = 1
        THEN 2 * KthSmallest(times, (n + 1) \div 2)
        ELSE KthSmallest(times, n \div 2) + KthSmallest(times, (n \div 2) + 1)

\* C6: measure_latency returns the standard median of the recorded values,
\* penalties included, and +infinity when zero attempts were configured or
\* nothing was recorded.
C6_ReturnsMedian ==
    \A tk \in Calls("latency") :
        tk.status = "returned" =>
            /\ tk.attempts = 0 => tk.value = Inf
            /\ IF tk.times = <<>>
               THEN tk.value = Inf
               ELSE /\ tk.value.finite
                    /\ 2 * tk.value.num = tk.value.den * TwiceStandardMedian(tk.times)

\* Five attempts recorded out of order, a penalty among them, and returned.
C6_Witness ==
    \E tk \in Calls("latency") :
        /\ tk.status = "returned"
        /\ Len(tk.times) = 5
        /\ tk.times[1] = Penalty
        /\ tk.times[2] > tk.times[3]

\* C7: for every size >= 0 gen() yields size bytes in all: size div 65536
\* chunks of 65536 bytes, then one chunk of size mod 65536 bytes unless that is
\* 0; no chunk is larger than 65536 bytes.
C7_PayloadIsExact ==
    \A tk \in Calls("upload") :
        /\ \A k \in 1..Len(tk.sent) : tk.sent[k] >= 1 /\ tk.sent[k] <= 65536
        /\ Sum(tk.sent) <= tk.size
        /\ tk.exhausted =>
            /\ Sum(tk.sent) = tk.size
            /\ Len(tk.sent) = (tk.size \div 65536) + (IF tk.size % 65536 = 0 THEN 0 ELSE 1)
            /\ \A k \in 1..(tk.size \div 65536) : tk.sent[k] = 65536
            /\ tk.size % 65536 # 0 => tk.sent[Len(tk.sent)] = tk.size % 65536

\* A payload of two full chunks and a tail of one byte, streamed to its end.
C7_Witness ==
    \E tk \in Calls("upload") :
        tk.exhausted /\ tk.size = 2 * 65536 + 1 /\ tk.sent = <<65536, 65536, 1>>

\* C8: when the bootstrap fetch fails (transport error, HTTP error, a body that
\* is not JSON or not a catalog) construction ends with the error raised: the
\* caller holds no client, no catalog is stored and no measurement starts; a
\* client that exists holds a catalog.
C8_BootstrapFailureIsFatal ==
    /\ bootstrap \notin {"", "ok"} =>
        /\ main_pc = "raised"
        /\ error \in {"RequestException", "YandexAPIError", "JSONDecodeError", "ValidationError"}
        /\ ya = "none"
        /\ probes = NoCatalog
        /\ tasks = <<>> /\ next_call = 0 /\ sessions = <<>>
    /\ bootstrap = "http_error" => error = "YandexAPIError"
    /\ ya = "ready" => bootstrap = "ok" /\ probes \in Catalogs
    /\ tasks # <<>> => ya = "ready"

\* The catalog endpoint answered with an HTTP error and main() ended with it.
C8_Witness ==
    bootstrap = "http_error" /\ main_pc = "raised" /\ error = "YandexAPIError"

\* C9: every open session belongs to a call that has not returned yet: once a
\* call has returned, failed or been cancelled, the session it opened is
\* closed, so when all calls are over no session is open.
C9_SessionsReleased ==
    /\ \A s \in DOMAIN sessions :
        \E tk \in Tasks : tk.id = s /\ ~Done(tk) /\ tk.session = s
    /\ (\A tk \in Tasks : Done(tk)) => sessions = <<>>

\* main() is over: one upload ended on a non-200 status, one on a transport
\* error, and no session is open.
C9_Witness ==
    /\ main_pc = "done"
    /\ sessions = <<>>
    /\ \E a, b \in Calls("upload") :
        a.fault = "status" /\ b.fault = "stream" /\ a.status = "returned" /\ b.status = "returned"

\* C10: a session is used by the call that opened it and by no other, a call
\* uses no session but its own, and no step of a call changes the client (its
\* bootstrap session's headers, its catalog, mid, lid) or DEFAULT_HEADERS, of
\* which each session holds its own copy.
C10_OwnSession ==
    /\ \A s \in DOMAIN sessions :
        /\ sessions[s].owner = s
        /\ sessions[s].users \subseteq {s}
        /\ sessions[s].headers = DefaultHeaderKeys
    /\ \A tk \in Tasks : tk.session # 0 => tk.session = tk.id /\ tk.id \in DOMAIN sessions
    /\ DEFAULT_HEADERS = DefaultHeaderKeys

C10_CallStep ==
    main_pc # "create" =>
        UNCHANGED <<DEFAULT_HEADERS, session_headers, probes, mid, lid, ya, fetches>>

C10_CallsShareNothing == []C10_OwnSession /\ [][C10_CallStep]_vars

\* Two calls in flight, each having sent a request on its own session.
C10_Witness ==
    \E a, b \in Tasks :
        /\ a.id # b.id
        /\ ~Done(a) /\ ~Done(b)
        /\ a.session # 0 /\ b.session # 0
        /\ sessions[a.id].users = {a.id}
        /\ sessions[b.id].users = {b.id}

\* C11: measure_latency never raises, whatever the network does: a timeout, a
\* refused or reset connection and a failure while opening or closing the
\* session are all turned into the penalty or sentinel value, and the call
\* returns a number.
C11_LatencyNeverRaises ==
    \A tk \in Calls("latency") :
        /\ tk.status # "raised"
        /\ tk.status = "returned" => tk.value = Inf \/ tk.value.finite

\* C14: the catalog is fetched exactly once, when the client is constructed,
\* and never changes afterwards: whatever measure_* calls have run, succeeded
\* or failed, probes, mid and lid are what the bootstrap stored and no further
\* fetch was issued.
C14_FetchedOnce ==
    /\ fetches <= 1
    /\ main_pc # "create" => fetches = 1
    /\ ya = "ready" => probes \in Catalogs /\ mid # "" /\ lid # ""
    /\ ya # "ready" => probes = NoCatalog

C14_CatalogFrame ==
    main_pc # "create" => UNCHANGED <<probes, mid, lid, fetches>>

C14_CatalogImmutable == []C14_FetchedOnce /\ [][C14_CatalogFrame]_vars

\* All three fan-outs are over, a download, a latency call and an upload each
\* having run to its end; the last one had an upload fail and an upload
\* succeed, and the catalog was fetched once.
C14_Witness ==
    /\ main_pc = "done"
    /\ fetches = 1
    /\ Len(probes.download) = 2 /\ Len(probes.latency) = 2
    /\ \E a, b \in Calls("upload") :
        /\ a.status = "returned" /\ a.value = Sentinel
        /\ b.status = "returned" /\ b.value[1].finite

\* C15: the connect timeout a call measures with is 10 when the timeout passed
\* to it is None, and the passed value itself otherwise, for measure_download,
\* measure_upload and measure_latency alike.
C15_TimeoutAsGiven ==
    \A tk \in Tasks :
        tk.session # 0 =>
            sessions[tk.session].connect = (IF tk.timeout.given THEN tk.timeout.v ELSE 10)

\* C16: a measure_latency call whose session opened issues exactly `attempts`
\* GETs, one after the other, over that one session: attempt i+1 is issued
\* only when attempt i has finished (measured or failed) and the 50 ms sleep
\* after it is over, and the session is closed only after the last attempt.
C16_OneAtATime ==
    \A tk \in Calls("latency") :
        /\ tk.gets <= tk.attempts
        /\ tk.pc = "get" => tk.gets = tk.i /\ tk.i < tk.attempts
        /\ tk.pc \in {"read", "sleep"} => tk.gets = tk.i + 1
        /\ (tk.pc = "close" \/ tk.status = "returned"
                \/ (tk.status = "raised" /\ tk.fault # "open")) =>
                tk.gets = tk.attempts
        /\ tk.pc \in {"get", "read", "sleep", "close"} =>
                tk.session = tk.id /\ tk.id \in DOMAIN sessions
        /\ tk.pc \in {"get", "read", "sleep"} => sessions[tk.id].users \subseteq {tk.id}

C16_AttemptOrder ==
    \A i \in DOMAIN tasks :
        (i \in DOMAIN tasks' /\ tasks[i].kind = "latency" /\ tasks'[i].id = tasks[i].id) =>
            LET a == tasks[i]
                b == tasks'[i]
            IN  /\ (b.pc = "get" /\ a.pc # "get") =>
                    \/ a.pc = "start" /\ b.i = 0
                    \/ a.pc = "sleep" /\ b.i = a.i + 1
                /\ (b.pc = "sleep" /\ a.pc # "sleep") => a.pc \in {"get", "read"} /\ b.i = a.i
                /\ b.gets # a.gets => a.pc = "get" /\ b.gets = a.gets + 1
                /\ (b.pc = "close" /\ a.pc # "close") =>
                    \/ a.pc = "sleep" /\ a.i + 1 = a.attempts
                    \/ a.pc = "start" /\ a.attempts = 0
                /\ b.session # a.session =>
                    \/ a.pc = "start" /\ b.session = a.id
                    \/ a.pc = "close" /\ b.session = 0 /\ Done(b)

C16_SequentialAttempts == []C16_OneAtATime /\ [][C16_AttemptOrder]_vars

\* The third of five attempts is in flight on the call's session, after one
\* attempt that failed and one that was measured.
C16_Witness ==
    \E tk \in Calls("latency") :
        /\ tk.pc = "get" /\ tk.attempts = 5 /\ tk.i = 2 /\ tk.gets = 2
        /\ tk.net = <<"fail", "ok">>
        /\ tk.session = tk.id /\ tk.id \in DOMAIN sessions

\* C17: a measure_download that succeeds took t0 before its request was issued
\* and t1 only after the last chunk of the body was consumed, and returns as
\* its byte count the sum of the lengths of the chunks it read, none above
\* 64 KiB; it returns no success while a chunk of the body is unread.
C17_CountsEveryChunk ==
    \A tk \in Calls("download") :
        /\ tk.nread <= Len(Body(tk.url))
        /\ \A k \in 1..tk.nread : Body(tk.url)[k] <= 65536
        /\ tk.pc \in {"read", "close"} =>
                tk.total_bytes = Sum(SubSeq(Body(tk.url), 1, tk.nread))
        /\ tk.pc = "get" => tk.gets = 0 /\ tk.nread = 0 /\ tk.t0 <= now
        /\ (tk.status = "returned" /\ tk.value[1].finite) =>
                /\ tk.fault = "none"
                /\ tk.gets = 1
                /\ tk.nread = Len(Body(tk.url))
                /\ tk.value[2] = Sum(Body(tk.url))
                /\ tk.value[1].num >= 0

C17_WindowStep ==
    \A i \in DOMAIN tasks :
        (i \in DOMAIN tasks' /\ tasks[i].kind = "download" /\ tasks'[i].id = tasks[i].id) =>
            LET a == tasks[i]
                b == tasks'[i]
            IN  /\ (a.pc = "start" /\ b.pc # "start") => a.gets = 0 /\ b.gets = 0
                /\ (b.pc = "get" /\ a.pc # "get") => a.pc = "start" /\ b.t0 = now
                /\ (~Done(b) /\ a.pc # "start") => b.t0 = a.t0
                /\ b.gets # a.gets => a.pc = "get" /\ a.t0 <= now
                /\ b.nread # a.nread =>
                    /\ a.pc = "read"
                    /\ b.nread = a.nread + 1
                    /\ b.total_bytes = a.total_bytes + Body(a.url)[b.nread]
                /\ (b.status = "returned" /\ a.status # "returned" /\ b.value[1].finite) =>
                    /\ a.pc = "close" /\ a.after = "end"
                    /\ a.nread = Len(Body(a.url))
                    /\ b.value = <<Float(now - a.t0), a.total_bytes>>

C17_WindowCoversBody == []C17_CountsEveryChunk /\ [][C17_WindowStep]_vars

\* A body of a full chunk and a chunk of one byte was read to its end while
\* the clock advanced, and the call returned (1, 65537).
C17_Witness ==
    \E tk \in Calls("download") :
        /\ tk.status = "returned" /\ tk.url = 2 /\ tk.nread = 2
        /\ tk.value = <<Float(1), 65536 + 1>>

\* The category whose samples run.transfers holds has been reduced.
Aggregated == run.pc \in {"gather", "reduce"} /\ run.transfers # <<>>

\* The throughput the last reduction stored: the category reduced is the one
\* before run.category.
LastThroughput ==
    IF run.category = "upload" THEN run.round.download_mbps ELSE run.round.upload_mbps

\* The fraction value equals n / d.
EqualsFraction(value, n, d) ==
    /\ value.finite /\ value.den > 0
    /\ d % value.den = 0
    /\ value.num * (d \div value.den) = n

\* C12: the throughput of a category in a round, from its N concurrent
\* samples (elapsed_i, bytes_i), is 8 * sum(bytes_i) / 1e6 / max(elapsed_i); it
\* is 0 when every sample is the failure sentinel (and when some are, their
\* elapsed being +infinity), never +infinity or NaN.
C12_ThroughputFormula ==
    Aggregated =>
        LET samples == run.transfers
            failed == {k \in DOMAIN samples : samples[k] = Sentinel}
            bytes == Sum([k \in DOMAIN samples |-> samples[k][2]])
            slowest == CHOOSE k \in DOMAIN samples :
                          \A j \in DOMAIN samples : samples[j][1].num <= samples[k][1].num
        IN  /\ LastThroughput.finite /\ LastThroughput.den > 0 /\ LastThroughput.num >= 0
            /\ failed # {} => LastThroughput = Float(0)
            /\ failed = {} =>
                /\ \A k \in DOMAIN samples : samples[k][1].den = 1
                /\ EqualsFraction(LastThroughput, 8 * bytes, 1000000 * samples[slowest][1].num)

\* Two downloads of 6,250,000 bytes each, one taking 1 s and one 2 s, were
\* reduced to 50 Mbps.
C12_Witness ==
    /\ Aggregated
    /\ run.category = "upload"
    /\ run.transfers = <<(<<Float(1), 6250000>>), (<<Float(2), 6250000>>)>>
    /\ run.round.download_mbps = Float(50)

\* A round whose downloads all failed has a download throughput of 0.
C12_WitnessAllFailed ==
    /\ Aggregated
    /\ run.category = "upload"
    /\ \A k \in DOMAIN run.transfers : run.transfers[k] = Sentinel
    /\ run.round.download_mbps = Float(0)

\* The values of one metric over the rounds of the run.
Metric(name) == [k \in DOMAIN run.rounds |-> run.rounds[k][name]]

RECURSIVE CommonDen(_)
CommonDen(values) ==
    IF values = <<>> THEN 1
    ELSE LET d == CommonDen(Tail(values))
         IN  (Head(values).den \div GCD(Head(values).den, d)) * d

\* value is the arithmetic mean of values, none left out.
IsMeanOf(value, values) ==
    LET d == CommonDen(values)
    IN  EqualsFraction(value,
                       Sum([k \in DOMAIN values |-> values[k].num * (d \div values[k].den)]),
                       d * Len(values))

\* C13, its rounds and means: run(count) performs exactly count rounds and
\* returns, for each of ping_ms, download_mbps and upload_mbps, the arithmetic
\* mean of the count per-round values, no round left out.
C13_MeanOfRounds ==
    /\ Len(run.rounds) <= run.count
    /\ run.pc = "reduce" => Len(run.rounds) = run.count
    /\ run.pc = "done" =>
        /\ Len(run.rounds) = run.count
        /\ Len(run.result) = 1
        /\ IsMeanOf(run.result[1].ping_ms, Metric("ping_ms"))
        /\ IsMeanOf(run.result[1].download_mbps, Metric("download_mbps"))
        /\ IsMeanOf(run.result[1].upload_mbps, Metric("upload_mbps"))
    /\ run.pc # "done" => run.result = <<>>

\* Three rounds with download values 100, 0 and 50 gave a download_mbps of 50.
C13_Witness ==
    /\ run.pc = "done"
    /\ Metric("download_mbps") = <<Float(100), Float(0), Float(50)>>
    /\ run.result[1].download_mbps = Float(50)

\* C13: run(count) performs exactly count rounds and returns the arithmetic
\* mean of the per-round values of each metric, no round left out, and a run
\* in which probes fail still returns a SpeedResult instead of failing.
C13_RunReturnsMeans ==
    /\ C13_MeanOfRounds
    /\ run.pc # "raised"
    /\ main_pc = "raised" => run.pc = "idle"
====
